---------------------------- MODULE Spec2Model ----------------------------
(***************************************************************************)
(* A model of anaflow.flow.laplace.grf_laplace: the extended GRF model in  *)
(* Laplace space.  One behaviour is one call.  The call validates its      *)
(* arguments, allocates the result and the workspaces, and then, for each  *)
(* transform variable, builds a linear system, solves it and evaluates the *)
(* head at every radius.                                                   *)
(*                                                                         *)
(* Numbers.  Arrays are functions on 0..n-1, as in the source.  The        *)
(* arguments are small integers; s and S/K are perfect squares so that     *)
(* np.sqrt is exact.  Values computed from the modified Bessel functions   *)
(* are elements of the prime field Field: the arithmetic of the linear     *)
(* solves is exact there, and a system is singular exactly when its        *)
(* determinant is 0.  The Bessel functions, the pumping term, rad ** nu    *)
(* and the final scale are external real functions; each is a fixed table  *)
(* of its arguments.  Beside its value, an entry of the banded matrix      *)
(* carries its order of magnitude relative to cut_off_prec, which is all   *)
(* the cut-off test reads.                                                 *)
(***************************************************************************)
EXTENDS Integers, FiniteSets

(* ------------------------------ bounds -------------------------------- *)
\* the largest number of disks
MaxParts == 3
\* the largest number of transform variables in one call
MaxLenS == 2

(* ------------------------------ values -------------------------------- *)
\* np.inf, larger than every finite radius of the model
Inf == 99
\* np.nan
NaN == -1
\* the default K_well=None
NoneVal == -2

Field == 0 .. 6
P == Cardinality(Field)

Add(x, y) == (x + y) % P
Sub(x, y) == (x + P - y) % P
Mul(x, y) == (x * y) % P
Inv(x) == CHOOSE y \in Field : (x * y) % P = 1
Div(x, y) == Mul(x, Inv(y % P))

\* np.sqrt on a perfect square
Sqrt(x) == CHOOSE r \in 0 .. x : r * r = x

Size(a) == Cardinality(DOMAIN a)
Arrs(lens, vals) == UNION {[0 .. n - 1 -> vals] : n \in lens}
Min(S) == CHOOSE x \in S : \A y \in S : x <= y
Max(S) == CHOOSE x \in S : \A y \in S : x >= y
Range(a) == {a[i] : i \in DOMAIN a}
\* the array a, evaluated once: TLC keeps a function expression unevaluated
\* and would evaluate it again at every use
Eager(a) == IF a = a THEN a ELSE a

VARIABLES s, rad, S_part, K_part, R_part, dim, lat_ext, rate, K_well,
          pc, err, res, pos, si, M, V, coef, Mb, X, first, M_sgl, solved

args == <<s, rad, S_part, K_part, R_part, dim, lat_ext, rate, K_well>>
work == <<res, pos, si, M, V, coef, Mb, X, first, M_sgl, solved>>
vars == <<args, pc, err, work>>

(* ---------------------------- validation ------------------------------ *)
\* parts = len(K_part)
parts == Size(K_part)

\* K_part[0] on an empty array raises IndexError
KwellRaises == K_well = NoneVal /\ Size(K_part) = 0

\* K_well = K_part[0] if K_well is None else float(K_well)
KwellResolved == IF K_well = NoneVal THEN K_part[0] ELSE K_well

\* The checks of the input, in the order of the source; 0 when all pass.
\* np.min of an empty rad raises ValueError as well.
FailedCheck ==
  CASE ~(Size(R_part) - 1 = Size(S_part) /\ Size(S_part) = Size(K_part)
         /\ Size(K_part) > 0) -> 1
    [] R_part[0] < 0 -> 2
    [] ~(\A i \in 0 .. Size(R_part) - 2 : R_part[i] < R_part[i + 1]) -> 3
    [] Size(rad) = 0 -> 4
    [] ~(Min(Range(rad)) > R_part[0])
         \/ Max(Range(rad)) > R_part[Size(R_part) - 1] -> 4
    [] ~(\A i \in DOMAIN K_part : K_part[i] > 0) -> 5
    [] ~(\A i \in DOMAIN S_part : S_part[i] > 0) -> 6
    [] ~(dim > 0) \/ dim > 3 -> 7
    [] ~(lat_ext > 0) -> 8
    [] ~(KwellResolved > 0) -> 9
    [] OTHER -> 0

\* the error the statements before the result is initialised end in
ValidateError ==
  IF KwellRaises THEN "IndexError"
  ELSE IF FailedCheck # 0 THEN "ValueError" ELSE "none"

Validate ==
  /\ pc = "validate"
  /\ err' = ValidateError
  /\ pc' = IF ValidateError = "none" THEN "prepare" ELSE "raised"
  /\ UNCHANGED <<args, work>>

(* ------------------------------ inputs -------------------------------- *)
NoArr == << >>

InitWork ==
  /\ pc = "validate" /\ err = "none"
  /\ res = NoArr /\ pos = NoArr /\ si = 0
  /\ M = NoArr /\ V = NoArr /\ coef = NoArr
  /\ Mb = NoArr /\ X = NoArr /\ first = 0 /\ M_sgl = NoArr /\ solved = {}

\* the arguments of the validation alone: every check can fail
InitValidation ==
  /\ s = [i \in 0 .. 0 |-> 1]
  /\ rate = 1
  /\ K_part \in Arrs(0 .. 2, {0, 1})
  /\ S_part \in Arrs(0 .. 2, {0, 1})
  /\ R_part \in Arrs(0 .. 3, {-1, 0, 1, 2})
  /\ rad \in Arrs(0 .. 1, {0, 1, 2, 3})
  /\ dim \in {0, 2, 4}
  /\ lat_ext \in {0, 1}
  /\ K_well \in {NoneVal, 0, 1}
  /\ InitWork

NextValidation == Validate

SpecValidation == InitValidation /\ [][NextValidation]_vars

(* --------------------------- special functions ----------------------- *)
\* Arguments of the Bessel functions from which their order of magnitude
\* crosses cut_off_prec (default 1e-20) or 1 / cut_off_prec, and from which
\* kv underflows to 0.0.  kv decreases and iv increases with the argument;
\* kv of order nu - 1 grows without bound as the argument goes to 0.
KvHugeArg == 1
KvTinyArg == 6
IvHugeArg == 10
KvZeroArg == 12

\* an entry: its value v and its order of magnitude m
Zero == [v |-> 0, m |-> "zero"]
One == [v |-> 1, m |-> "norm"]
Neg(e) == [v |-> Sub(0, e.v), m |-> e.m]
Times(t, e) == [v |-> Mul(t, e.v), m |-> e.m]

\* A table of positive reals.  Its values are the nonzero squares of the
\* field: they are closed under product and quotient, and the sum of two
\* of them is never 0, as for positive reals.
Tab(k) == CASE k % 3 = 0 -> 1 [] k % 3 = 1 -> 2 [] OTHER -> 4

\* kv0 = kv(nu, x), kv1 = kv(nu - 1, x), iv0 = iv(nu, x), iv1 = iv(nu - 1, x)
\* with nu = 1 - dim / 2
kv0(a) ==
  IF a >= KvZeroArg THEN Zero
  ELSE [v |-> Tab(3 * a + dim), m |-> IF a >= KvTinyArg THEN "tiny" ELSE "norm"]
kv1(a) ==
  IF a >= KvZeroArg THEN Zero
  ELSE [v |-> Tab(5 * a + 2 * dim + 1),
        m |-> IF a >= KvTinyArg THEN "tiny"
              ELSE IF a <= KvHugeArg THEN "huge" ELSE "norm"]
iv0(a) == [v |-> Tab(a * a + dim), m |-> IF a >= IvHugeArg THEN "huge" ELSE "norm"]
iv1(a) == [v |-> Tab(a * a + 3 * a + dim + 2),
           m |-> IF a >= IvHugeArg THEN "huge" ELSE "norm"]

\* diff_sr0, difsr[i] = np.sqrt(S_part[i] / K_part[i])
difsr(i) == Sqrt(S_part[i] \div K_part[i])

\* Qs[si]: the pumping condition, by the well radius
Qs(se) ==
  IF R_part[0] > 0
  THEN Sub(0, Tab(se + 2 * difsr(0) + R_part[0] + dim))
  ELSE Tab(se + difsr(0) + dim + 3)

\* rad ** nu
PowNu(re) == Tab(re + dim)

\* rate / (K_well * sph_surf(dim) * lat_ext ** (3.0 - dim)): the divisor is
\* finite and positive after the checks, rate is whatever float(rate) gave
ScaleFactor ==
  IF rate \in {NaN, Inf} THEN rate
  ELSE Div(rate % P, Mul(KwellResolved % P, Mul(Tab(dim), Tab(lat_ext + dim))))

\* res *= f for one finite entry x: nan * x = nan, inf * 0 = nan
ScaleEntry(x, f) ==
  IF f = NaN THEN NaN
  ELSE IF f = Inf THEN (IF x = 0 THEN NaN ELSE Inf)
  ELSE Mul(x, f)

\* re ** nu * (A * kv0(Cs * re) + B * iv0(Cs * re))
HeadValue(A, B, cs, re) ==
  Mul(PowNu(re), Add(Mul(A, kv0(cs * re).v), Mul(B, iv0(cs * re).v)))

(* ------------------------------ solvers ------------------------------- *)
\* np.nan_to_num
nan_to_num(x) == IF x = NaN THEN 0 ELSE x

\* np.linalg.solve on a 2x2 system: LinAlgError on a singular matrix
LinalgSolve(A, b) ==
  LET det == Sub(Mul(A[0][0].v, A[1][1].v), Mul(A[0][1].v, A[1][0].v))
  IN IF det = 0 THEN [ok |-> FALSE, x |-> <<0, 0>>]
     ELSE [ok |-> TRUE,
           x |-> <<Div(Sub(Mul(b[0], A[1][1].v), Mul(A[0][1].v, b[1])), det),
                   Div(Sub(Mul(A[0][0].v, b[1]), Mul(A[1][0].v, b[0])), det)>>]

(* --------------------------- initialisation --------------------------- *)
lastR == R_part[Size(R_part) - 1]

\* np.searchsorted with side='right'
searchsortedRight(r) == Cardinality({i \in DOMAIN R_part : R_part[i] <= r})

\* np.searchsorted(R_part, r): the number of boundaries below r
searchsorted(r) == Cardinality({i \in DOMAIN R_part : R_part[i] < r})

eye2 == [r \in 0 .. 1 |-> [c \in 0 .. 1 |-> IF r = c THEN One ELSE Zero]]

\* Mb = zeros((5, 2 * parts)) with Mb[2, 0] = Mb[2, -1] = 1.0
Mb0(n) ==
  [k \in 0 .. 4 |-> [c \in 0 .. 2 * n - 1 |->
     IF k = 2 /\ (c = 0 \/ c = 2 * n - 1) THEN One ELSE Zero]]

Prepare ==
  /\ pc = "prepare"
  /\ res' = [i \in DOMAIN s |-> [j \in DOMAIN rad |-> 0]]
  /\ si' = 0
  /\ IF parts = 1
     THEN /\ V' = [i \in 0 .. 1 |-> 0]
          /\ M' = eye2
          /\ pc' = IF Size(s) > 0 THEN "build1" ELSE "finish"
          /\ UNCHANGED <<Mb, X, pos>>
     ELSE /\ V' = [i \in 0 .. 2 * parts - 1 |-> 0]
          /\ Mb' = Mb0(parts)
          /\ X' = [i \in 0 .. 2 * parts - 1 |-> 0]
          /\ pos' = [j \in DOMAIN rad |-> searchsorted(rad[j]) - 1]
          /\ pc' = IF Size(s) > 0 THEN "assemble" ELSE "finish"
          /\ UNCHANGED M
  /\ UNCHANGED <<args, err, coef, first, M_sgl, solved>>

(* -------------------------- one disk (parts = 1) ---------------------- *)
\* the boundary conditions written into the 2x2 matrix A for the transform
\* variable se, the well radius R0 and the outer radius RN
SingleSystem(A, se, R0, RN) ==
  LET Cs == Sqrt(se) * difsr(0)
      A1 == IF R0 > 0
            THEN [A EXCEPT ![0] = [c \in 0 .. 1 |->
                    IF c = 0 THEN Neg(kv1(Cs * R0)) ELSE iv1(Cs * R0)]]
            ELSE A
  IN IF RN < Inf
     THEN [A1 EXCEPT ![1] = [c \in 0 .. 1 |->
             IF c = 0 THEN kv0(Cs * RN) ELSE iv0(Cs * RN)]]
     ELSE [A1 EXCEPT ![0][1] = Zero]

Build1 ==
  /\ pc = "build1"
  /\ V' = [V EXCEPT ![0] = Qs(s[si])]
  /\ M' = SingleSystem(M, s[si], R_part[0], lastR)
  /\ pc' = "solve1"
  /\ UNCHANGED <<args, err, res, pos, si, coef, Mb, X, first, M_sgl, solved>>

\* As, Bs = np.linalg.solve(M, V), outside any try
Solve1 ==
  /\ pc = "solve1"
  /\ LET r == LinalgSolve(M, V)
     IN IF r.ok
        THEN /\ coef' = r.x
             /\ pc' = "head1"
             /\ err' = err
        ELSE /\ err' = "LinAlgError"
             /\ pc' = "raised"
             /\ coef' = coef
  /\ UNCHANGED <<args, res, pos, si, M, V, Mb, X, first, M_sgl, solved>>

\* the row of one disk: radii at the outer boundary keep the initial 0
SingleRow(old, A, B, se, RN) ==
  [j \in DOMAIN rad |->
     IF rad[j] < RN THEN HeadValue(A, B, Sqrt(se) * difsr(0), rad[j])
     ELSE old[j]]

EvalHead1 ==
  /\ pc = "head1"
  /\ res' = [res EXCEPT ![si] = SingleRow(res[si], coef[1], coef[2], s[si], lastR)]
  /\ si' = si + 1
  /\ pc' = IF si + 1 < Size(s) THEN "build1" ELSE "finish"
  /\ UNCHANGED <<args, err, pos, M, V, coef, Mb, X, first, M_sgl, solved>>

(* ----------------------- several disks (parts > 1) ------------------- *)
\* Cs[i] = np.sqrt(se) * difsr[i]
Cs(i, se) == Sqrt(se) * difsr(i)

\* Kfrac[i] = K_part[i] / K_part[i + 1]
Kfrac(i) == Div(K_part[i] % P, K_part[i + 1] % P)

\* tmp[i] = Kfrac[i] * difsr[i] / difsr[i + 1]
tmp(i) == Mul(Kfrac(i), Div(difsr(i) % P, difsr(i + 1) % P))

\* one pass of the loop over the interfaces: the head and flux conditions
\* at R_part[i + 1], written into the band B
AssembleDisk(B, i, se) ==
  [B EXCEPT ![0][2 * i + 3] = Neg(iv0(Cs(i + 1, se) * R_part[i + 1])),
            ![1][2 * i + 2] = Neg(kv0(Cs(i + 1, se) * R_part[i + 1])),
            ![1][2 * i + 3] = Neg(iv1(Cs(i + 1, se) * R_part[i + 1])),
            ![2][2 * i + 1] = iv0(Cs(i, se) * R_part[i + 1]),
            ![2][2 * i + 2] = kv1(Cs(i + 1, se) * R_part[i + 1]),
            ![3][2 * i] = kv0(Cs(i, se) * R_part[i + 1]),
            ![3][2 * i + 1] = Times(tmp(i), iv1(Cs(i, se) * R_part[i + 1])),
            ![4][2 * i] = Neg(Times(tmp(i), kv1(Cs(i, se) * R_part[i + 1])))]

\* for i in range(n - 1)
RECURSIVE AssembleLoop(_, _, _, _)
AssembleLoop(B, i, n, se) ==
  IF i >= n - 1 THEN B ELSE AssembleLoop(AssembleDisk(B, i, se), i + 1, n, se)

\* the boundary conditions without the erasure for an infinite R_part[n]
SetBoundaryKeep(B, n, se) ==
  LET B1 == IF R_part[0] > 0
            THEN [B EXCEPT ![2][0] = Neg(kv1(Cs(0, se) * R_part[0])),
                           ![1][1] = iv1(Cs(0, se) * R_part[0])]
            ELSE B
  IN IF R_part[n] < Inf
     THEN [B1 EXCEPT ![3][2 * n - 2] = kv0(Cs(n - 1, se) * R_part[n]),
                     ![2][2 * n - 1] = iv0(Cs(n - 1, se) * R_part[n])]
     ELSE B1

\* the boundary conditions at the well and at the outer boundary R_part[n]
SetBoundary(B, n, se) ==
  LET B1 == IF R_part[0] > 0
            THEN [B EXCEPT ![2][0] = Neg(kv1(Cs(0, se) * R_part[0])),
                           ![1][1] = iv1(Cs(0, se) * R_part[0])]
            ELSE B
  IN IF R_part[n] < Inf
     THEN [B1 EXCEPT ![3][2 * n - 2] = kv0(Cs(n - 1, se) * R_part[n]),
                     ![2][2 * n - 1] = iv0(Cs(n - 1, se) * R_part[n])]
     ELSE [B1 EXCEPT ![0][2 * n - 1] = Zero, ![1][2 * n - 1] = Zero]

\* the system of n disks for the transform variable se, written over B
BuildSystem(B, n, se) == SetBoundary(AssembleLoop(B, 0, n, se), n, se)

Assemble ==
  /\ pc = "assemble"
  /\ V' = [V EXCEPT ![0] = Qs(s[si])]
  /\ Mb' = BuildSystem(Mb, parts, s[si])
  /\ pc' = "guard"
  /\ UNCHANGED <<args, err, res, pos, si, M, coef, X, first, M_sgl, solved>>

\* np.max(np.abs(Mb), axis=0): the largest order of magnitude of a column
Rank(m) == CASE m = "zero" -> 0 [] m = "tiny" -> 1 [] m = "norm" -> 2 [] OTHER -> 3
ColMax(B, c) == Max({Rank(B[k][c].m) : k \in 0 .. 4})

\* Mb_cond < cut_off_prec or Mb_cond > 1 / cut_off_prec
Mb_cond(B, c) == ColMax(B, c) <= 1 \/ ColMax(B, c) = 3

\* cond = np.where(Mb_cond)[0]
cond(B) == {c \in DOMAIN B[0] : Mb_cond(B, c)}

\* the last crossing column instead of the first
FirstIdxLast(B) == IF cond(B) # {} THEN Max(cond(B)) \div 2 ELSE parts

\* first = cond[0] // 2 if found else parts
FirstIdx(B) == IF cond(B) # {} THEN Min(cond(B)) \div 2 ELSE parts

Guard ==
  /\ pc = "guard"
  /\ first' = FirstIdx(Mb)
  /\ pc' = "solve"
  /\ UNCHANGED <<args, err, res, pos, si, M, V, coef, Mb, X, M_sgl, solved>>

\* the banded matrix B (flat, column wise) with right-hand side b as an
\* augmented n x (n + 1) matrix
DenseAug(B, b, n) ==
  Eager([r \in 0 .. n - 1 |-> [c \in 0 .. n |->
     IF c = n THEN b[r]
     ELSE IF c - r <= 2 /\ r - c <= 2 THEN B[2 + r - c][c].v ELSE 0]])

\* elimination below the diagonal, without exchange of rows
RECURSIVE Eliminate(_, _, _)
Eliminate(A, k, n) ==
  IF k = n THEN [ok |-> TRUE, A |-> A]
  ELSE IF A[k][k] = 0 THEN [ok |-> FALSE, A |-> A]
  ELSE Eliminate(Eager([r \in 0 .. n - 1 |->
                    IF r <= k THEN A[r]
                    ELSE [c \in 0 .. n |->
                            Sub(A[r][c], Mul(Div(A[r][k], A[k][k]), A[k][c]))]]),
                 k + 1, n)

RECURSIVE RowSum(_, _, _, _, _)
RowSum(A, x, k, c, n) ==
  IF c >= n THEN 0 ELSE Add(Mul(A[k][c], x[c]), RowSum(A, x, k, c + 1, n))

RECURSIVE BackSubstitute(_, _, _, _)
BackSubstitute(A, x, k, n) ==
  IF k < 0 THEN x
  ELSE BackSubstitute(A,
         [x EXCEPT ![k] = Div(Sub(A[k][n], RowSum(A, x, k, k + 1, n)), A[k][k])],
         k - 1, n)

\* pentapy.solve(B, b, is_flat=True, index_row_wise=False): the solution, or
\* an array of nan when a pivot of the elimination is zero
PentaSolve(B, b, n) ==
  LET e == Eliminate(DenseAug(B, b, n), 0, n)
  IN IF e.ok THEN BackSubstitute(e.A, Eager([j \in 0 .. n - 1 |-> 0]), n - 1, n)
     ELSE [j \in 0 .. n - 1 |-> NaN]

\* M_sgl of the branch first <= 1: the innermost 2x2 block
InnerBlock(B) ==
  [r \in 0 .. 1 |-> [c \in 0 .. 1 |->
     IF c = 0 THEN B[2 + r][0] ELSE B[1 + r][1]]]

\* the writes through the view without M_sgl[-1, -2] = 0
ShrinkZeroTwo(B, f) ==
  [B EXCEPT ![4][2 * f - 1] = Zero, ![3][2 * f - 1] = Zero]

\* the writes through the view M_sgl = Mb[:, :2 * f] when f < parts
ShrinkZero(B, f) ==
  [B EXCEPT ![4][2 * f - 1] = Zero, ![3][2 * f - 1] = Zero, ![4][2 * f - 2] = Zero]

\* Mb[:, :2 * f]
View(B, f) == Eager([k \in 0 .. 4 |-> [c \in 0 .. 2 * f - 1 |-> B[k][c]]])

\* the coefficients kept as the iteration before left them
ResetCoefKeep(x, f) == x

\* the coefficients reset one index late
ResetCoefLate(x, f) == [j \in DOMAIN x |-> IF j >= 2 * f + 1 THEN 0 ELSE x[j]]

\* X[2 * first:] = 0.0
ResetCoef(x, f) == [j \in DOMAIN x |-> IF j >= 2 * f THEN 0 ELSE x[j]]

\* The coefficients for the guard index f, from the coefficients x of the
\* iteration before, the band B and the right-hand side b: X, Mb and M_sgl
\* after the step, the indices a solver wrote, and whether the solver failed.
SolveStep(x, B, b, f) ==
  IF f <= 1
  THEN LET r == LinalgSolve(InnerBlock(B), b)
           X1 == [ResetCoef(x, f) EXCEPT ![0] = IF r.ok THEN r.x[1] ELSE 0,
                                         ![1] = IF r.ok THEN r.x[2] ELSE 0]
       IN [X |-> [j \in DOMAIN x |-> nan_to_num(X1[j])],
           Mb |-> B,
           M_sgl |-> InnerBlock(B),
           solved |-> IF r.ok THEN {0, 1} ELSE {},
           failed |-> ~r.ok]
  ELSE LET BZ == IF f < parts THEN ShrinkZero(B, f) ELSE B
           y == Eager(PentaSolve(View(BZ, f), b, 2 * f))
           X0 == ResetCoef(x, f)
       IN [X |-> [j \in DOMAIN x |-> nan_to_num(IF j < 2 * f THEN y[j] ELSE X0[j])],
           Mb |-> BZ,
           M_sgl |-> View(BZ, f),
           solved |-> 0 .. 2 * f - 1,
           failed |-> y[0] = NaN]

Solve ==
  /\ pc = "solve"
  /\ LET r == SolveStep(X, Mb, V, first)
     IN /\ X' = r.X
        /\ Mb' = r.Mb
        /\ M_sgl' = r.M_sgl
        /\ solved' = r.solved
  /\ pc' = "head"
  /\ UNCHANGED <<args, err, res, pos, si, M, V, coef, first>>

\* the row of several disks; a contribution whose coefficient is below
\* cut_off_prec is set to 0
MultiRow(x, se) ==
  [j \in DOMAIN rad |->
     LET p == pos[j]
         k0_sub == IF x[2 * p] = 0 THEN 0
                   ELSE Mul(x[2 * p], kv0(Cs(p, se) * rad[j]).v)
         i0_sub == IF x[2 * p + 1] = 0 THEN 0
                   ELSE Mul(x[2 * p + 1], iv0(Cs(p, se) * rad[j]).v)
     IN Mul(PowNu(rad[j]), Add(k0_sub, i0_sub))]

EvalHead ==
  /\ pc = "head"
  /\ res' = [res EXCEPT ![si] = MultiRow(X, s[si])]
  /\ si' = si + 1
  /\ pc' = IF si + 1 < Size(s) THEN "assemble" ELSE "finish"
  /\ UNCHANGED <<args, err, pos, M, V, coef, Mb, X, first, M_sgl, solved>>

(* ------------------------------- return ------------------------------- *)
Finish ==
  /\ pc = "finish"
  /\ res' = [i \in DOMAIN res |-> [j \in DOMAIN res[i] |->
               ScaleEntry(nan_to_num(res[i][j]), ScaleFactor)]]
  /\ pc' = "done"
  /\ UNCHANGED <<args, err, pos, si, M, V, coef, Mb, X, first, M_sgl, solved>>

(* --------------------------- the whole call --------------------------- *)
SVals == {1, 4, 9}
RadLens == {1, 2}
RadVals == {1, 2, 3}
RVals == {0, 1, 2, 3, Inf}

Init ==
  /\ s \in Arrs(1 .. MaxLenS, SVals)
  /\ rad \in Arrs(RadLens, RadVals)
  /\ K_part \in Arrs(1 .. MaxParts, {1, 2})
  /\ S_part \in [DOMAIN K_part -> {1, 8}]
  /\ \A i \in DOMAIN K_part : S_part[i] = K_part[i] * K_part[i] * K_part[i]
  /\ R_part \in [0 .. Size(K_part) -> RVals]
  /\ \A i \in 0 .. Size(K_part) - 1 : R_part[i] < R_part[i + 1]
  /\ dim \in {2, 3}
  /\ lat_ext = 1
  /\ rate = 1
  /\ K_well = NoneVal
  /\ InitWork

\* calls whose pumping rate is finite, nan or inf; rate is not checked
RateVals == {1, NaN, Inf}

InitScaling ==
  /\ s \in Arrs(1 .. MaxLenS, SVals)
  /\ rad \in Arrs(RadLens, RadVals)
  /\ K_part \in Arrs(1 .. MaxParts - 1, {1})
  /\ S_part = K_part
  /\ R_part \in [0 .. Size(K_part) -> RVals]
  /\ \A i \in 0 .. Size(K_part) - 1 : R_part[i] < R_part[i + 1]
  /\ dim = 2
  /\ lat_ext = 1
  /\ rate \in RateVals
  /\ K_well = NoneVal
  /\ InitWork

Next ==
  \/ Validate
  \/ Prepare
  \/ Build1
  \/ Solve1
  \/ EvalHead1
  \/ Assemble
  \/ Guard
  \/ Solve
  \/ EvalHead
  \/ Finish

Spec == Init /\ [][Next]_vars

SpecScaling == InitScaling /\ [][Next]_vars

(* ------------------------------ claim C1 ------------------------------ *)
\* the conditions on the input, as the contract lists them
InputValid ==
  /\ Size(R_part) - 1 = Size(S_part)
  /\ Size(S_part) = Size(K_part)
  /\ Size(K_part) > 0
  /\ R_part[0] >= 0
  /\ \A i \in 0 .. Size(R_part) - 2 : R_part[i] < R_part[i + 1]
  /\ \A i \in DOMAIN K_part : K_part[i] > 0
  /\ \A i \in DOMAIN S_part : S_part[i] > 0
  /\ \A i \in DOMAIN rad :
       rad[i] > R_part[0] /\ rad[i] <= R_part[Size(R_part) - 1]
  /\ dim > 0 /\ dim <= 3
  /\ lat_ext > 0
  /\ KwellResolved > 0

\* C1: every input that violates one of the conditions of the contract ends
\* in ValueError, with no result and no linear system built, and in no other
\* kind of error.
C1_InvalidInputRaisesValueError ==
  (pc # "validate" /\ ~InputValid) =>
     /\ pc = "raised" /\ err = "ValueError"
     /\ res = NoArr /\ M = NoArr /\ Mb = NoArr

(* ------------------- what one transform variable gives ---------------- *)
\* The workspaces and the row of the transform variable se when every
\* workspace is built from scratch for se alone.
FreshV(se) == [i \in 0 .. 2 * parts - 1 |-> IF i = 0 THEN Qs(se) ELSE 0]
FreshMb(se) == BuildSystem(Mb0(parts), parts, se)
FreshStep(se) ==
  SolveStep([i \in 0 .. 2 * parts - 1 |-> 0], FreshMb(se), FreshV(se),
            FirstIdx(FreshMb(se)))
FreshM(se) == SingleSystem(eye2, se, R_part[0], lastR)
FreshV1(se) == [i \in 0 .. 1 |-> IF i = 0 THEN Qs(se) ELSE 0]
FreshCoef(se) == LinalgSolve(FreshM(se), FreshV1(se))
FreshRow(se) ==
  IF parts = 1
  THEN SingleRow([j \in DOMAIN rad |-> 0], FreshCoef(se).x[1],
                 FreshCoef(se).x[2], se, lastR)
  ELSE MultiRow(FreshStep(se).X, se)

\* the input passed the validation
Validated == pc \notin {"validate", "raised"} \/ err = "LinAlgError"

(* ------------------------------ claim C2 ------------------------------ *)
\* C2: a singular system of one transform variable never makes the call
\* fail, with one disk or with several: its coefficients are zero and the
\* call goes on.
C2_SingularSystemNeverFails ==
  /\ err # "LinAlgError"
  /\ (pc = "head1" /\ ~FreshCoef(s[si]).ok) => (coef[1] = 0 /\ coef[2] = 0)
  /\ (pc = "head" /\ first <= 1 /\ solved = {}) => \A j \in DOMAIN X : X[j] = 0

(* ------------------------------ claim C3 ------------------------------ *)
\* C3: the workspaces an iteration solves with, the coefficients it
\* evaluates and the row it writes are those of its own transform variable
\* built from scratch: nothing is left of an earlier iteration.
C3_IterationsIndependent ==
  /\ (pc \in {"guard", "solve"}) =>
        LET B == FreshMb(s[si])
        IN /\ Mb = B /\ V = FreshV(s[si])
           /\ (pc = "solve" => first = FirstIdx(B))
  /\ (pc = "head") =>
        LET r == FreshStep(s[si])
        IN X = r.X /\ M_sgl = r.M_sgl
  /\ (pc = "solve1") => (M = FreshM(s[si]) /\ V = FreshV1(s[si]))
  /\ (pc = "head1") => coef = FreshCoef(s[si]).x
  /\ (pc \in {"assemble", "build1", "finish"}) =>
        \A i \in 0 .. si - 1 : res[i] = FreshRow(s[i])

\* a second iteration evaluates its coefficients after an iteration that
\* wrote zeros into Mb through the truncated view, for another variable
C3_Witness ==
  /\ pc = "head" /\ si = 1 /\ s[0] # s[1]
  /\ FirstIdx(FreshMb(s[0])) > 1 /\ FirstIdx(FreshMb(s[0])) < parts
  /\ first = parts
  /\ \E j \in DOMAIN X : X[j] # 0

(* ------------------------------ claim C4 ------------------------------ *)
\* C4: with several disks every accepted radius has exactly one disk index
\* pos in 0..N-1 with R_part[pos] < r <= R_part[pos + 1], and the indices
\* 2 * pos and 2 * pos + 1 are indices of X.
C4_RadiusHasOneDisk ==
  (Validated /\ pc # "prepare" /\ parts > 1) =>
     \A j \in DOMAIN rad :
        /\ pos[j] \in 0 .. parts - 1
        /\ R_part[pos[j]] < rad[j] /\ rad[j] <= R_part[pos[j] + 1]
        /\ \A p \in 0 .. parts - 1 :
              (R_part[p] < rad[j] /\ rad[j] <= R_part[p + 1]) => p = pos[j]
        /\ {2 * pos[j], 2 * pos[j] + 1} \subseteq DOMAIN X

\* a radius on the outer boundary and a radius on an inner boundary
C4_Witness ==
  /\ pc = "head" /\ parts > 2
  /\ \E j \in DOMAIN rad : rad[j] = lastR /\ pos[j] = parts - 1
  /\ \E j \in DOMAIN rad : rad[j] = R_part[1] /\ pos[j] = 0

(* ------------------------------ claim C5 ------------------------------ *)
\* C5: every input that passes the validation gets a matrix with len(s)
\* rows and len(rad) columns back.
C5_ReturnsFullMatrix ==
  (Validated /\ pc \in {"done", "raised"}) =>
     /\ pc = "done"
     /\ DOMAIN res = DOMAIN s
     /\ \A i \in DOMAIN res : DOMAIN res[i] = DOMAIN rad

(* ------------------------------ claim C6 ------------------------------ *)
Homogeneous ==
  \A i \in DOMAIN K_part : K_part[i] = K_part[0] /\ S_part[i] = S_part[0]

\* the row the one-disk solver returns for R_part = [R_0, R_N] and disk 0
MergedRow(se) ==
  LET c == FreshCoef(se)
      row == SingleRow([j \in DOMAIN rad |-> 0], c.x[1], c.x[2], se, lastR)
  IN [j \in DOMAIN rad |-> Mul(row[j], ScaleFactor)]

\* C6: when all disks share K and S, the output of the solver for several
\* disks is the output of the one-disk solver for [R_0, R_N], for every s
\* and every radius (stated for the calls in which no solver fails).
C6_HomogeneityCollapse ==
  (pc = "done" /\ parts > 1 /\ Homogeneous
     /\ \A i \in DOMAIN s : FreshCoef(s[i]).ok /\ ~FreshStep(s[i]).failed) =>
     \A i \in DOMAIN s : res[i] = MergedRow(s[i])

(* ------------------------------ claim C7 ------------------------------ *)
\* the largest entry of the two columns of disk i taken together crosses
\* the cut-off
JointCross(B, i) ==
  LET m == Max({ColMax(B, 2 * i), ColMax(B, 2 * i + 1)}) IN m <= 1 \/ m = 3

\* one of the two columns of disk i crosses the cut-off by itself
ColumnCross(B, i) ==
  \/ ColMax(B, 2 * i) <= 1 \/ ColMax(B, 2 * i) = 3
  \/ ColMax(B, 2 * i + 1) <= 1 \/ ColMax(B, 2 * i + 1) = 3

\* C7 as claimed: first is the smallest disk whose largest entry over both
\* of its columns is below cut_off_prec or above 1 / cut_off_prec, and N
\* when there is none.
C7_FirstIsFirstJointCrossing ==
  pc = "solve" =>
     first = IF \E i \in 0 .. parts - 1 : JointCross(Mb, i)
             THEN Min({i \in 0 .. parts - 1 : JointCross(Mb, i)})
             ELSE parts

\* C7 as amended: first is the smallest disk one of whose two columns has
\* its own largest entry below cut_off_prec or above 1 / cut_off_prec, and
\* N when there is none; the first crossing wins.
C7_FirstIsFirstColumnCrossing ==
  pc = "solve" =>
     first = IF \E i \in 0 .. parts - 1 : ColumnCross(Mb, i)
             THEN Min({i \in 0 .. parts - 1 : ColumnCross(Mb, i)})
             ELSE parts

\* several disks cross, and the first of them by its K column alone
C7_Witness ==
  /\ pc = "solve" /\ first >= 1 /\ first < parts - 1
  /\ ColumnCross(Mb, first) /\ ~JointCross(Mb, first)
  /\ Cardinality({i \in 0 .. parts - 1 : ColumnCross(Mb, i)}) >= 2

(* ------------------------------ claim C8 ------------------------------ *)
\* C8 as claimed: after the solve every coefficient from 2 * first on is
\* zero and was written by no solver, first = 0 included.
C8_CoefficientsFromFirstAreZero ==
  pc = "head" =>
     \A j \in DOMAIN X : j >= 2 * first => (X[j] = 0 /\ j \notin solved)

\* disk 0 is solved whatever first is
FirstSolved == IF first <= 1 THEN 1 ELSE first

\* C8 as amended: after the solve every coefficient from 2 * max(first, 1)
\* on is zero and was written by no solver; with first = 0 the two
\* coefficients of disk 0 are still solved from the innermost 2x2 block.
C8_CoefficientsFromFirstSolvedAreZero ==
  pc = "head" =>
     /\ \A j \in DOMAIN X : j >= 2 * FirstSolved => (X[j] = 0 /\ j \notin solved)
     /\ (first = 0 /\ ~FreshStep(s[si]).failed) => solved = {0, 1}

\* a second iteration with first = 0 whose disk 0 is solved and not zero,
\* after an iteration that solved all disks
C8_Witness ==
  /\ pc = "head" /\ si = 1 /\ first = 0 /\ parts > 1
  /\ solved = {0, 1} /\ X[0] # 0
  /\ FirstIdx(FreshMb(s[0])) = parts
  /\ \E j \in 2 .. 2 * parts - 1 : FreshStep(s[0]).X[j] # 0

(* ------------------------------ claim C9 ------------------------------ *)
\* C9: for 1 <= first < N the system that is solved is, entry by entry and
\* in its right-hand side, the system of the first `first` disks with the
\* finite outer boundary R_first: the 2x2 system of one disk for first = 1,
\* the band of the builder otherwise, with no entry left in a row from
\* 2 * first on.
C9_ReducedSystemIsSystemOfFirstDisks ==
  (pc = "head" /\ first >= 1 /\ first < parts) =>
     /\ V[0] = Qs(s[si]) /\ \A j \in 1 .. 2 * first - 1 : V[j] = 0
     /\ first = 1 => M_sgl = SingleSystem(eye2, s[si], R_part[0], R_part[1])
     /\ first > 1 =>
          /\ M_sgl = BuildSystem(Mb0(first), first, s[si])
          /\ \A k \in 0 .. 4 : \A c \in 0 .. 2 * first - 1 :
                c + k - 2 >= 2 * first => M_sgl[k][c] = Zero

\* a system truncated to two of three disks whose erased entries were not zero
C9_Witness ==
  /\ pc = "head" /\ first > 1 /\ first < parts
  /\ FreshMb(s[si])[4][2 * first - 2] # Zero
  /\ FreshMb(s[si])[3][2 * first - 1] # Zero

(* ------------------------------ claim C10 ----------------------------- *)
\* C10: with an infinite outer boundary the I coefficient of the outermost
\* disk is zero where the head is evaluated: B for one disk; X[2N-1] for
\* several, where the last equation is 1 * X[2N-1] = 0 and the entries of
\* the last column in the other rows are erased in every iteration.
C10_InfiniteBoundaryHasNoIBranch ==
  (Validated /\ lastR = Inf) =>
     /\ pc = "head1" => coef[2] = 0
     /\ pc = "head" => X[2 * parts - 1] = 0
     /\ pc \in {"guard", "solve"} =>
          /\ Mb[2][2 * parts - 1] = One /\ Mb[3][2 * parts - 2] = Zero
          /\ Mb[4][2 * parts - 3] = Zero
          /\ Mb[0][2 * parts - 1] = Zero /\ Mb[1][2 * parts - 1] = Zero
          /\ V[2 * parts - 1] = 0

\* all disks of an unbounded aquifer solved, with a solution that is not zero
C10_Witness ==
  /\ pc = "head" /\ lastR = Inf /\ first = parts /\ parts > 2
  /\ si = 1 /\ X[0] # 0 /\ X[2 * parts - 2] # 0

(* ------------------------------ claim C11 ----------------------------- *)
\* C11: the matrix returned for an input that passes the validation has no
\* NaN entry, whatever s and rate are: the cleaning of the result covers the
\* scaling by rate / (K_well * sph_surf(dim) * lat_ext ** (3 - dim)).
C11_ReturnedMatrixHasNoNaN ==
  (Validated /\ pc = "done") =>
     \A i \in DOMAIN res : \A j \in DOMAIN res[i] : res[i][j] # NaN

=============================================================================
